---------------------------- MODULE Spec2Model ----------------------------
(***************************************************************************)
(* C44Matrix: a Nuke PixelIop that applies a 4x4 matrix to the (R,G,B,A)   *)
(* quadruple of every pixel.  The matrix is the node's "matrix" array knob *)
(* (entered by hand, or supplied through the ValueProvider bridge from the *)
(* camera/axis on input 1), optionally transposed and inverted by          *)
(* _validate, and applied by pixel_engine with an optional divide by w.    *)
(*                                                                         *)
(* Modelled from src/src/16.1+/C44Matrix.cpp; src/src/C44Matrix.cpp is the *)
(* older build of the same plugin (the legacy provideValues is modelled    *)
(* from it as well).                                                       *)
(*                                                                         *)
(* Numbers.  A single-precision value is the rational it holds, <<n, d>>:  *)
(* d > 0 is the finite number n/d in lowest terms, <<0,1>> is +0 and       *)
(* <<0,-1>> is -0, <<1,0>> and <<-1,0>> are +inf and -inf, <<0,0>> is NaN. *)
(* Every arithmetic result is rounded to the nearest float.  A double      *)
(* is a record [f, lo]: f is the single-precision value it narrows         *)
(* to and lo stands for the low-order bits that narrowing discards         *)
(* (lo = 0 for every double obtained by widening a float).                 *)
(***************************************************************************)
EXTENDS Integers, Sequences, FiniteSets, TLC

----------------------------------------------------------------------------
(* Single-precision arithmetic: IEEE-754 binary32 with round to nearest,   *)
(* ties to even, signed zeros, infinities and NaN.                          *)

Abs(n) == IF n < 0 THEN -n ELSE n

Sgn(n) == IF n < 0 THEN -1 ELSE IF n > 0 THEN 1 ELSE 0

RECURSIVE Gcd(_, _)
Gcd(a, b) == IF b = 0 THEN a ELSE Gcd(b, a % b)

\* n/d in lowest terms with a positive denominator; d = 0 gives inf or NaN.
Rat(n, d) ==
    IF d = 1 THEN <<n, 1>>
    ELSE IF d = 0 THEN <<Sgn(n), 0>>
    ELSE LET g == Gcd(Abs(n), Abs(d))
             s == IF d < 0 THEN -1 ELSE 1
         IN  <<(s * n) \div g, Abs(d) \div g>>

R(n) == <<n, 1>>

NaN == <<0, 0>>

\* -0.0f
NegZero == <<0, -1>>

IsNaN(a) == a = NaN

IsInf(a) == a[2] = 0 /\ a[1] # 0

IsFinite(a) == a[2] # 0

IsZero(a) == a[2] # 0 /\ a[1] = 0

\* the sign bit of a value that is not NaN: -1 or 1
SignOf(a) == IF a[1] < 0 \/ a[2] < 0 THEN -1 ELSE 1

\* the zero of sign s
ZeroOf(s) == IF s < 0 THEN NegZero ELSE R(0)

\* the infinity of sign s
InfOf(s) == <<s, 0>>

\* the powers of two a 32-bit integer holds
Pow2Tab ==
    <<1, 2, 4, 8, 16, 32, 64, 128, 256, 512, 1024, 2048, 4096, 8192, 16384,
      32768, 65536, 131072, 262144, 524288, 1048576, 2097152, 4194304, 8388608,
      16777216, 33554432, 67108864, 134217728, 268435456, 536870912, 1073741824>>

Pow2(k) == Pow2Tab[k + 1]

Pow2Set == {Pow2Tab[i] : i \in DOMAIN Pow2Tab}

\* bits of the significand of a float
MantBits == 24

\* q rounded to the nearest integer, ties to even, for q = num/den >= 0
RoundHalfEven(num, den) ==
    LET m == num \div den
        rem == num % den
    IN  IF 2 * rem > den \/ (2 * rem = den /\ m % 2 = 1) THEN m + 1 ELSE m

\* the least k with a / 2^k < 2^24
RECURSIVE ExcessBits(_, _)
ExcessBits(a, k) ==
    IF a \div Pow2(k) < Pow2(MantBits) THEN k ELSE ExcessBits(a, k + 1)

\* num doubled e times until num/den >= 2^23, or den doubled -e times until
\* num/den < 2^24: <<num, den, e>>
RECURSIVE Normalise(_, _, _)
Normalise(num, den, e) ==
    IF num \div den < Pow2(MantBits - 1) THEN Normalise(2 * num, den, e + 1)
    ELSE IF num \div den >= Pow2(MantBits) THEN Normalise(num, 2 * den, e - 1)
    ELSE <<num, den, e>>

\* the float nearest to the non-zero rational n/d (d > 0, lowest terms).
\* Exponents beyond the float's range (overflow to inf, subnormals) lie
\* outside the integers of the model.
RoundF(q) ==
    LET n == q[1]
        d == q[2]
        a == Abs(n)
    IN  IF a < Pow2(MantBits) /\ (d = 1 \/ d \in Pow2Set) THEN q
        ELSE IF d \in Pow2Set
        THEN LET k == ExcessBits(a, 0)
             IN  Rat(Sgn(n) * RoundHalfEven(a, Pow2(k)) * Pow2(k), d)
        ELSE LET nz == Normalise(a, d, 0)
                 m == RoundHalfEven(nz[1], nz[2])
                 e == nz[3]
             IN  IF e >= 0 THEN Rat(Sgn(n) * m, Pow2(e))
                 ELSE <<Sgn(n) * m * Pow2(-e), 1>>

\* -a: flips the sign bit, of a zero too
RNeg(a) == IF a[1] = 0 THEN <<0, -a[2]>> ELSE <<-a[1], a[2]>>

\* a + b: (-0) + (-0) is -0, every other sum that is zero is +0
RAdd(a, b) ==
    IF IsNaN(a) \/ IsNaN(b) THEN NaN
    ELSE IF IsInf(a) THEN (IF IsInf(b) /\ b[1] # a[1] THEN NaN ELSE a)
    ELSE IF IsInf(b) THEN b
    ELSE IF IsZero(a) /\ IsZero(b)
         THEN (IF a = NegZero /\ b = NegZero THEN NegZero ELSE R(0))
    ELSE IF IsZero(a) THEN b
    ELSE IF IsZero(b) THEN a
    ELSE LET n == a[1] * b[2] + b[1] * a[2]
         IN  IF n = 0 THEN R(0) ELSE RoundF(Rat(n, a[2] * b[2]))

RSub(a, b) == RAdd(a, RNeg(b))

\* a * b: the sign is the product of the signs, of zeros too
RMul(a, b) ==
    IF IsNaN(a) \/ IsNaN(b) THEN NaN
    ELSE IF IsInf(a) \/ IsInf(b)
         THEN (IF IsZero(a) \/ IsZero(b) THEN NaN
               ELSE InfOf(SignOf(a) * SignOf(b)))
    ELSE IF IsZero(a) \/ IsZero(b) THEN ZeroOf(SignOf(a) * SignOf(b))
    ELSE RoundF(Rat(a[1] * b[1], a[2] * b[2]))

\* a / b: x/0 is +-inf by the signs of x and of the zero, 0/0 and inf/inf
\* are NaN, x/inf is a zero.
RDiv(a, b) ==
    IF IsNaN(a) \/ IsNaN(b) THEN NaN
    ELSE IF IsInf(a) THEN (IF IsInf(b) THEN NaN ELSE InfOf(SignOf(a) * SignOf(b)))
    ELSE IF IsInf(b) THEN ZeroOf(SignOf(a) * SignOf(b))
    ELSE IF IsZero(b) THEN (IF IsZero(a) THEN NaN ELSE InfOf(SignOf(a) * SignOf(b)))
    ELSE IF IsZero(a) THEN ZeroOf(SignOf(a) * SignOf(b))
    ELSE RoundF(Rat(a[1] * b[2], a[2] * b[1]))

\* sqrtf: NaN below zero, a zero and +inf unchanged; on the finite values
\* the model feeds it, squares of rationals, the root is exact.
ISqrt(n) == CHOOSE k \in 0..n : k * k = n

RSqrt(a) ==
    IF IsNaN(a) THEN NaN
    ELSE IF IsZero(a) THEN a
    ELSE IF SignOf(a) < 0 THEN NaN
    ELSE IF IsInf(a) THEN a
    ELSE <<ISqrt(a[1]), ISqrt(a[2])>>

\* double -> float: static_cast<float>, drops the low-order bits.
ToFloat(dv) == dv.f

\* float -> double: static_cast<double>, exact.
ToDouble(fv) == [f |-> fv, lo |-> 0]

\* A double with the float part n/d and low-order bits lo.
D(n, lo) == [f |-> R(n), lo |-> lo]

----------------------------------------------------------------------------
(* DD::Image::Matrix4 and Vector4.  A Matrix4 is its float[16] array() in  *)
(* memory order (a00,a10,a20,a30, a01,... : the four basis vectors, then   *)
(* the translation), here the sequence m[1..16].                           *)

MatrixSize == 16

MatrixDim == 4

Idx == 1..MatrixSize

\* element (r, c), r and c in 0..3, of the flat array read as 4 rows of 4
At(m, r, c) == m[MatrixDim * r + c + 1]

MkMat(F(_, _)) ==
    [i \in Idx |-> F((i - 1) \div MatrixDim, (i - 1) % MatrixDim)]

\* Matrix4::makeIdentity
IdentityM == MkMat(LAMBDA r, c : IF r = c THEN R(1) ELSE R(0))

\* Matrix4::transpose
Transpose(m) == MkMat(LAMBDA r, c : At(m, c, r))

Det2(a, b, c, d) == RSub(RMul(a, d), RMul(b, c))

\* the 2x2 sub-determinants of rows r1, r2 of m, for the column pairs
\* (0,1) (0,2) (0,3) (1,2) (1,3) (2,3)
SubDets(m, r1, r2) ==
    <<Det2(At(m, r1, 0), At(m, r1, 1), At(m, r2, 0), At(m, r2, 1)),
      Det2(At(m, r1, 0), At(m, r1, 2), At(m, r2, 0), At(m, r2, 2)),
      Det2(At(m, r1, 0), At(m, r1, 3), At(m, r2, 0), At(m, r2, 3)),
      Det2(At(m, r1, 1), At(m, r1, 2), At(m, r2, 1), At(m, r2, 2)),
      Det2(At(m, r1, 1), At(m, r1, 3), At(m, r2, 1), At(m, r2, 3)),
      Det2(At(m, r1, 2), At(m, r1, 3), At(m, r2, 2), At(m, r2, 3))>>

\* determinant from the sub-determinants s of rows 0,1 and c of rows 2,3
DetFrom(s, c) ==
    RAdd(RAdd(RSub(RMul(s[1], c[6]), RMul(s[2], c[5])),
              RAdd(RMul(s[3], c[4]), RMul(s[4], c[3]))),
         RSub(RMul(s[6], c[1]), RMul(s[5], c[2])))

\* Matrix4::determinant
Determinant(m) == DetFrom(SubDets(m, 0, 1), SubDets(m, 2, 3))

\* a*x - b*y + c*z
Alt3(a, x, b, y, c, z) == RAdd(RSub(RMul(a, x), RMul(b, y)), RMul(c, z))

\* a cofactor of odd position: 0 - x
Cof(x) == RSub(R(0), x)

\* the adjugate of m, from the sub-determinants s of rows 0,1 and c of rows 2,3
Adjugate(m, s, c) ==
    <<Alt3(At(m, 1, 1), c[6], At(m, 1, 2), c[5], At(m, 1, 3), c[4]),
      Cof(Alt3(At(m, 0, 1), c[6], At(m, 0, 2), c[5], At(m, 0, 3), c[4])),
      Alt3(At(m, 3, 1), s[6], At(m, 3, 2), s[5], At(m, 3, 3), s[4]),
      Cof(Alt3(At(m, 2, 1), s[6], At(m, 2, 2), s[5], At(m, 2, 3), s[4])),
      Cof(Alt3(At(m, 1, 0), c[6], At(m, 1, 2), c[3], At(m, 1, 3), c[2])),
      Alt3(At(m, 0, 0), c[6], At(m, 0, 2), c[3], At(m, 0, 3), c[2]),
      Cof(Alt3(At(m, 3, 0), s[6], At(m, 3, 2), s[3], At(m, 3, 3), s[2])),
      Alt3(At(m, 2, 0), s[6], At(m, 2, 2), s[3], At(m, 2, 3), s[2]),
      Alt3(At(m, 1, 0), c[5], At(m, 1, 1), c[3], At(m, 1, 3), c[1]),
      Cof(Alt3(At(m, 0, 0), c[5], At(m, 0, 1), c[3], At(m, 0, 3), c[1])),
      Alt3(At(m, 3, 0), s[5], At(m, 3, 1), s[3], At(m, 3, 3), s[1]),
      Cof(Alt3(At(m, 2, 0), s[5], At(m, 2, 1), s[3], At(m, 2, 3), s[1])),
      Cof(Alt3(At(m, 1, 0), c[4], At(m, 1, 1), c[2], At(m, 1, 2), c[1])),
      Alt3(At(m, 0, 0), c[4], At(m, 0, 1), c[2], At(m, 0, 2), c[1]),
      Cof(Alt3(At(m, 3, 0), s[4], At(m, 3, 1), s[2], At(m, 3, 2), s[1])),
      Alt3(At(m, 2, 0), s[4], At(m, 2, 1), s[2], At(m, 2, 2), s[1])>>

\* every entry of the matrix a times k
Scale(a, k) == [i \in Idx |-> RMul(a[i], k)]

\* Matrix4::inverse: the adjugate times 1/determinant, no singularity check
Inverse(m) ==
    LET s == SubDets(m, 0, 1)
        c == SubDets(m, 2, 3)
    IN  Scale(Adjugate(m, s, c), RDiv(R(1), DetFrom(s, c)))

\* Matrix4::transform(Vector4): component i of the result is
\* a_i0*x + a_i1*y + a_i2*z + a_i3*w, a_ij stored at array()[4*j + i]
Transform(m, v) ==
    [i \in 1..MatrixDim |->
        RAdd(RAdd(RMul(m[i], v[1]), RMul(m[MatrixDim + i], v[2])),
             RAdd(RMul(m[2 * MatrixDim + i], v[3]), RMul(m[3 * MatrixDim + i], v[4])))]

\* Vector4::operator/=(float d): every component divided by d
VecDiv(v, d) == [i \in 1..MatrixDim |-> RDiv(v[i], d)]

\* length of basis vector b (0..2) of an affine transform
AxisLength(m, b) ==
    RSqrt(RAdd(RAdd(RMul(At(m, b, 0), At(m, b, 0)), RMul(At(m, b, 1), At(m, b, 1))),
               RMul(At(m, b, 2), At(m, b, 2))))

\* Matrix4::translationOnly: keep the translation, identity elsewhere
TranslationOnly(m) ==
    MkMat(LAMBDA r, c : IF r = 3 /\ c < 3 THEN At(m, r, c)
                        ELSE IF r = c THEN R(1) ELSE R(0))

\* Matrix4::rotationOnly: basis vectors normalised, translation removed
RotationOnly(m) ==
    MkMat(LAMBDA r, c : IF r < 3 /\ c < 3 THEN RDiv(At(m, r, c), AxisLength(m, r))
                        ELSE IF r = c THEN R(1) ELSE R(0))

\* Matrix4::scaleOnly: the lengths of the basis vectors on the diagonal
ScaleOnly(m) ==
    MkMat(LAMBDA r, c : IF r = c THEN (IF r < 3 THEN AxisLength(m, r) ELSE R(1))
                        ELSE R(0))

----------------------------------------------------------------------------
(* Bounds of the model.                                                    *)

\* evaluation contexts (frames) 1..NumCtx
NumCtx == 2

\* pixels 0..MaxX of a scanline
MaxX == 1

Contexts == 1..NumCtx

\* matrixFromOptions: 0 "manual input", 1 "from camera/axis input"
FromProvider == 1

MatrixFromValues == {0, FromProvider}

\* cameraMatrixOptions: transform, translation, rotation, scale, projection, format
MaxOption == 5

Options == 0..MaxOption

FromSeq(s) == [i \in Idx |-> R(s[i])]

ZeroM == FromSeq(<<0,0,0,0, 0,0,0,0, 0,0,0,0, 0,0,0,0>>)

\* invertible, not symmetric; maps (1,1,1,1) to (1,1,1,2)
PerspM == FromSeq(<<1,0,0,0, 0,1,0,0, 0,0,1,1, 0,0,0,1>>)

\* the values a user enters in the 4x4 "matrix" knob (0 is the knob's default)
ManualMatrices == {ZeroM, IdentityM, PerspM}

----------------------------------------------------------------------------
(* The ops the host can put on input 1, and what they expose.              *)

NullOp == "null"

\* a Camera, an Axis, CameraOp::default_camera(), and an op that is neither
Ops == {"camera", "axis", "defcam", "other"}

\* dynamic_cast<CameraOp*>(op) != 0
IsCameraOp(op) == op \in {"camera", "defcam"}

\* dynamic_cast<AxisOp*>(op) != 0 (CameraOp derives from AxisOp)
IsAxisOp(op) == op \in {"camera", "defcam", "axis"}

\* image formats of input 0 (width, height), for CameraOp::ToFormat
Formats == {[w |-> 4, h |-> 2], [w |-> 8, h |-> 6]}

DefaultFormat == [w |-> 4, h |-> 2]

DblSeq(s, los) == [i \in Idx |-> D(s[i], IF i \in los THEN 1 ELSE 0)]

\* op->worldTransform() once the op is validated at context c: fdk::Mat4d.
\* The camera is animated: uniform scale 2, a quarter turn about Y, and a
\* translation that moves with the frame.
WorldTransform(op, c) ==
    IF op = "camera"
    THEN DblSeq(<<0,0,-2,0, 0,2,0,0, 2,0,0,0, 2 + c,4,5,1>>, {3, 13})
    ELSE IF op = "axis"
    THEN DblSeq(<<3,0,0,0, 0,1,0,0, 0,0,1,0, 1,c,0,1>>, {14})
    ELSE DblSeq(<<1,0,0,0, 0,1,0,0, 0,0,1,0, 0,0,0,1>>, {})

\* cam->projectionMatrix(): fdk::Mat4d
ProjectionMatrix(op, c) ==
    IF op = "camera"
    THEN DblSeq(<<2,0,0,0, 0,2,0,0, 0,0,-1,-1, 0,0,-2 * c,0>>, {1})
    ELSE DblSeq(<<1,0,0,0, 0,1,0,0, 0,0,-1,-1, 0,0,-1,0>>, {})

\* CameraOp::ToFormat applied to the identity: NDC to the pixels of fmt (fdk::Mat4f)
ToFormat(fmt) ==
    [i \in Idx |->
        IF i \in {1, 6, 13} THEN Rat(fmt.w, 2)
        ELSE IF i = 14 THEN Rat(fmt.h, 2)
        ELSE IF i \in {11, 16} THEN R(1) ELSE R(0)]

----------------------------------------------------------------------------
(* Extraction of the matrix component from the op on input 1.              *)

mat4dToMatrix4(src) == [i \in Idx |-> ToFloat(src[i])]

mat4fToMatrix4(src) == [i \in Idx |-> src[i]]

getCameraMatrix(cam, c, option, fmt) ==
    CASE option = 0 -> mat4dToMatrix4(WorldTransform(cam, c))
      [] option = 1 -> TranslationOnly(mat4dToMatrix4(WorldTransform(cam, c)))
      [] option = 2 -> RotationOnly(mat4dToMatrix4(WorldTransform(cam, c)))
      [] option = 3 -> ScaleOnly(mat4dToMatrix4(WorldTransform(cam, c)))
      [] option = 4 -> mat4dToMatrix4(ProjectionMatrix(cam, c))
      [] option = 5 -> mat4fToMatrix4(ToFormat(fmt))
      [] OTHER -> IdentityM

\* getAxisMatrix without the identity default: projection and format fall
\* into the transform case
getAxisMatrixNoDefault(axis, c, option) ==
    CASE option = 1 -> TranslationOnly(mat4dToMatrix4(WorldTransform(axis, c)))
      [] option = 2 -> RotationOnly(mat4dToMatrix4(WorldTransform(axis, c)))
      [] option = 3 -> ScaleOnly(mat4dToMatrix4(WorldTransform(axis, c)))
      [] OTHER -> mat4dToMatrix4(WorldTransform(axis, c))

getAxisMatrix(axis, c, option) ==
    CASE option = 0 -> mat4dToMatrix4(WorldTransform(axis, c))
      [] option = 1 -> TranslationOnly(mat4dToMatrix4(WorldTransform(axis, c)))
      [] option = 2 -> RotationOnly(mat4dToMatrix4(WorldTransform(axis, c)))
      [] option = 3 -> ScaleOnly(mat4dToMatrix4(WorldTransform(axis, c)))
      [] OTHER -> IdentityM

\* inputOp is Op::input(1), validated at context c; option is the value of
\* knob("matrixType") at the queried context; fmt is input_format()
_getInputMatrix(inputOp, c, option, fmt) ==
    IF IsCameraOp(inputOp) THEN getCameraMatrix(inputOp, c, option, fmt)
    ELSE IF IsAxisOp(inputOp) THEN getAxisMatrix(inputOp, c, option)
    ELSE IdentityM

----------------------------------------------------------------------------
(* The node.                                                               *)

VARIABLES
    \* knob values, as the user set them (the enumeration knobs hold one
    \* value for every frame and view)
    k_matrixFrom, k_matrixType, k_matrix, k_invert, k_transpose, k_w_divide,
    \* fields of the op, written by the host when it stores the knobs
    _matrixFrom, _matrixOption, _arrayKnob, _invert, _transpose, _w_divide,
    \* the effective matrix
    array_mtx,
    \* Op::input(1), the context the op and its inputs are built for, input_format()
    input1, opCtx, input_format,
    \* _validate has run; Op::aborted()
    validated, aborted,
    \* per scanline y, the pixel_engine call in flight on it
    calls,
    \* history: what the last store of the knobs read the matrix from
    passSrc,
    \* history: the answer the node gave to the host's query in the last step
    obs

knobVars == <<k_matrixFrom, k_matrixType, k_matrix, k_invert, k_transpose, k_w_divide>>

fieldVars == <<_matrixFrom, _matrixOption, _arrayKnob, _invert, _transpose, _w_divide>>

vars == <<knobVars, fieldVars, array_mtx, input1, opCtx, input_format,
          validated, aborted, calls, passSrc, obs>>

Pixels == 0..MaxX

\* the scanlines of the image, each processed by at most one pixel_engine
\* call at a time
Scanlines == {0, 1}

\* content of an output pixel the call has not written
Untouched == <<>>

\* no query was answered in the last step
NoObs == [kind |-> "none"]

\* content of a buffer slot the query has not written
Unwritten == [f |-> NaN, lo |-> -1]

\* the input image: (R,G,B,A) of pixel X of scanline y
Image(y, X) == <<R(1 + X), R(1 + y), R(1), R(1 - X)>>

IdleCall ==
    [pc |-> "idle", x |-> 0, r |-> 0, X |-> 0, out |-> [X \in Pixels |-> Untouched],
     entryAbort |-> FALSE, sawAbort |-> FALSE, mtx |-> IdentityM, wdiv |-> FALSE]

InFlight(y) == calls[y].pc = "run"

\* Knob::get_value_at(frame, view) of an enumeration knob holding v
get_value_at(v, oc) == v

\* Knob::get_value() of a knob holding v
get_value(v) == v

\* int minimum_inputs() const
minimum_inputs == 1 + (IF _matrixFrom = FromProvider THEN 1 ELSE 0)

\* int maximum_inputs() const
maximum_inputs == 1 + (IF _matrixFrom = FromProvider THEN 1 ELSE 0)

\* Iop::test_input: input 0 takes an image op
IopTestInput(n, op) == op = "other"

\* test_input with the provider test on inputs above 1 only
test_inputOffByOne(n, op) ==
    IF n > 1 THEN IsCameraOp(op) \/ IsAxisOp(op) ELSE IopTestInput(n, op)

\* bool test_input(int n, Op* op) const
test_input(n, op) ==
    IF n >= 1 THEN IsCameraOp(op) \/ IsAxisOp(op) ELSE IopTestInput(n, op)

\* Op* default_input(int input) const, for input 1
default_input1 == "defcam"

\* provideValues without the test of the matrixFrom knob
provideValuesNoModeCheck(oc, c) ==
    LET cam_mtx == _getInputMatrix(input1, c, get_value_at(k_matrixType, oc), input_format)
    IN  [i \in Idx |-> ToDouble(cam_mtx[i])]

\* std::vector<double> provideValues(const ArrayKnobI*, const OutputContext& oc);
\* c is the context input 1 is validated at
provideValues(oc, c) ==
    LET cam_mtx == IF get_value_at(k_matrixFrom, oc) = FromProvider
                   THEN _getInputMatrix(input1, c, get_value_at(k_matrixType, oc),
                                        input_format)
                   ELSE IdentityM
    IN  [i \in Idx |-> ToDouble(cam_mtx[i])]

Min(a, b) == IF a < b THEN a ELSE b

\* the buffer overload reading the option of the stored field instead of
\* the knob at the queried context
provideValuesBufStoredOption(values, nValues, oc, c) ==
    LET cam_mtx == IF get_value_at(k_matrixFrom, oc) = FromProvider
                   THEN _getInputMatrix(input1, c, _matrixOption, input_format)
                   ELSE IdentityM
        count == Min(nValues, MatrixSize)
    IN  [i \in DOMAIN values |-> IF i <= count THEN ToDouble(cam_mtx[i]) ELSE values[i]]

\* void provideValues(double* values, size_t nValues, const ArrayKnobI*,
\*                    const OutputContext& oc): values is the caller's buffer
provideValuesBuf(values, nValues, oc, c) ==
    LET cam_mtx == IF get_value_at(k_matrixFrom, oc) = FromProvider
                   THEN _getInputMatrix(input1, c, get_value_at(k_matrixType, oc),
                                        input_format)
                   ELSE IdentityM
        count == Min(nValues, MatrixSize)
    IN  [i \in DOMAIN values |-> IF i <= count THEN ToDouble(cam_mtx[i]) ELSE values[i]]

\* bool provideValuesEnabled(const Knob*, const OutputContext&) const
provideValuesEnabled == get_value(k_matrixFrom) = FromProvider

\* bool isDefault(const Knob*, const OutputContext&) const
isDefault == FALSE

\* bool isAnimated(const Knob*, const OutputContext&) const
isAnimated == _matrixFrom = FromProvider

\* What the host's store of the "matrix" Array_knob may take the 16 floats
\* of _arrayKnob.array from.  With the value provider disabled there is only
\* the knob's own value.  With it enabled the store is the host's: it may
\* take the knob's own value, or the values provideValues returns, queried
\* at the context c of the store with input 1 built for any context pc.
StoreSources(c) ==
    IF provideValuesEnabled
    THEN {[kind |-> "manual", m |-> k_matrix]}
         \cup {[kind |-> "provider", op |-> input1, pc |-> pc] : pc \in Contexts}
    ELSE {[kind |-> "manual", m |-> k_matrix]}

\* the floats stored into _arrayKnob.array from the source src
StoreArrayKnob(c, src) ==
    IF src.kind = "provider"
    THEN [i \in Idx |-> ToFloat(provideValues(c, src.pc)[i])]
    ELSE src.m

\* _validate inverting without transposing
_validateNoTranspose(arr, transp, inv) ==
    IF inv THEN Inverse(arr) ELSE arr

\* array_mtx as _validate leaves it: Matrix4(_arrayKnob.array), transposed if
\* _transpose, then inverted if _invert
_validate(arr, transp, inv) ==
    LET m0 == arr
        m1 == IF transp THEN Transpose(m0) ELSE m0
    IN  IF inv THEN Inverse(m1) ELSE m1

\* the loop body dividing w first and the other components by the new w
PixelKernelDivideWFirst(m, wdiv, sc) ==
    LET pw == Transform(m, sc)
        w1 == RDiv(pw[4], pw[4])
    IN  IF wdiv THEN <<RDiv(pw[1], w1), RDiv(pw[2], w1), RDiv(pw[3], w1), w1>> ELSE pw

\* the body of pixel_engine's loop for one pixel sc: the vector written
PixelKernel(m, wdiv, sc) ==
    LET pw == Transform(m, sc)
    IN  IF wdiv THEN VecDiv(pw, pw[4]) ELSE pw

----------------------------------------------------------------------------

\* The state after the constructor and knobs(); array_mtx is default
\* constructed, which leaves its content unspecified.
Init ==
    /\ k_matrixFrom = 0 /\ k_matrixType = 0 /\ k_matrix = ZeroM
    /\ k_invert = FALSE /\ k_transpose = FALSE /\ k_w_divide = FALSE
    /\ _matrixFrom = 0 /\ _matrixOption = 0 /\ _arrayKnob = ZeroM
    /\ _invert = FALSE /\ _transpose = FALSE /\ _w_divide = FALSE
    /\ array_mtx \in {ZeroM, PerspM}
    /\ input1 = NullOp /\ opCtx = 1 /\ input_format = DefaultFormat
    /\ validated = FALSE /\ aborted = FALSE
    /\ calls = [y \in Scanlines |-> IdleCall]
    /\ passSrc = [kind |-> "none"]
    /\ obs = NoObs

\* The user edits a knob.
SetMatrixFrom(v) ==
    /\ v # k_matrixFrom
    /\ k_matrixFrom' = v
    /\ obs' = NoObs
    /\ UNCHANGED <<k_matrixType, k_matrix, k_invert, k_transpose, k_w_divide, fieldVars,
                   array_mtx, input1, opCtx, input_format, validated, aborted, calls,
                   passSrc>>

SetMatrixType(v) ==
    /\ v # k_matrixType
    /\ k_matrixType' = v
    /\ obs' = NoObs
    /\ UNCHANGED <<k_matrixFrom, k_matrix, k_invert, k_transpose, k_w_divide, fieldVars,
                   array_mtx, input1, opCtx, input_format, validated, aborted, calls,
                   passSrc>>

SetMatrix(m) ==
    /\ m # k_matrix
    /\ k_matrix' = m
    /\ obs' = NoObs
    /\ UNCHANGED <<k_matrixFrom, k_matrixType, k_invert, k_transpose, k_w_divide, fieldVars,
                   array_mtx, input1, opCtx, input_format, validated, aborted, calls,
                   passSrc>>

SetInvert ==
    /\ k_invert' = ~k_invert
    /\ obs' = NoObs
    /\ UNCHANGED <<k_matrixFrom, k_matrixType, k_matrix, k_transpose, k_w_divide, fieldVars,
                   array_mtx, input1, opCtx, input_format, validated, aborted, calls,
                   passSrc>>

SetTranspose ==
    /\ k_transpose' = ~k_transpose
    /\ obs' = NoObs
    /\ UNCHANGED <<k_matrixFrom, k_matrixType, k_matrix, k_invert, k_w_divide, fieldVars,
                   array_mtx, input1, opCtx, input_format, validated, aborted, calls,
                   passSrc>>

SetWDivide ==
    /\ k_w_divide' = ~k_w_divide
    /\ obs' = NoObs
    /\ UNCHANGED <<k_matrixFrom, k_matrixType, k_matrix, k_invert, k_transpose, fieldVars,
                   array_mtx, input1, opCtx, input_format, validated, aborted, calls,
                   passSrc>>

\* The host connects op to input 1; it asks test_input first.
ConnectInput(op) ==
    /\ test_input(1, op)
    /\ op # input1
    /\ input1' = op
    /\ obs' = NoObs
    /\ UNCHANGED <<knobVars, fieldVars, array_mtx, opCtx, input_format, validated,
                   aborted, calls, passSrc>>

\* The host offers op for input n and connects it to input 1 if accepted.
OfferInput(n, op) ==
    /\ obs' = [kind |-> "offer", n |-> n, op |-> op, ok |-> test_input(n, op)]
    /\ input1' = IF n = 1 /\ test_input(n, op) THEN op ELSE input1
    /\ UNCHANGED <<knobVars, fieldVars, array_mtx, opCtx, input_format, validated,
                   aborted, calls, passSrc>>

\* Input 1 is disconnected: the host puts default_input(1) there.
DisconnectInput ==
    /\ input1 \notin {NullOp, default_input1}
    /\ input1' = default_input1
    /\ obs' = NoObs
    /\ UNCHANGED <<knobVars, fieldVars, array_mtx, opCtx, input_format, validated,
                   aborted, calls, passSrc>>

\* C44Matrix::knobs(f) with a storing callback, for the op built at context
\* c: every knob is stored into its field (the matrix from one of the sources
\* the host may use).  array_mtx is not touched: the op is no longer validated.  The host never stores into an op while engine
\* calls are running on it.
knobs(c) ==
    /\ \A y \in Scanlines : calls[y].pc = "idle"
    /\ opCtx' = c
    /\ _matrixFrom' = k_matrixFrom
    /\ _matrixOption' = k_matrixType
    /\ \E src \in StoreSources(c) :
          /\ _arrayKnob' = StoreArrayKnob(c, src)
          /\ passSrc' = src
    /\ _invert' = k_invert
    /\ _transpose' = k_transpose
    /\ _w_divide' = k_w_divide
    /\ validated' = FALSE
    /\ obs' = NoObs
    /\ UNCHANGED <<knobVars, array_mtx, input1, input_format, aborted, calls>>

\* C44Matrix::_validate(for_real): array_mtx is recomputed from the fields as
\* they are; nothing is stored.  The host calls it after a store, whenever it
\* needs the op valid, and never while engine calls are running on the op.
Validate ==
    /\ passSrc.kind # "none"
    /\ \A y \in Scanlines : calls[y].pc = "idle"
    /\ array_mtx' = _validate(_arrayKnob, _transpose, _invert)
    /\ validated' = TRUE
    /\ obs' = NoObs
    /\ UNCHANGED <<knobVars, fieldVars, input1, opCtx, input_format, aborted,
                   calls, passSrc>>

\* pixel_engine without the aborted() test
BeginEngineNoAbortCheck(y, x, r) ==
    /\ validated
    /\ calls[y].pc = "idle"
    /\ calls' = [calls EXCEPT ![y] =
                    [IdleCall EXCEPT !.pc = IF x < r THEN "run" ELSE "done",
                                     !.x = x, !.r = r, !.X = x,
                                     !.entryAbort = aborted,
                                     !.mtx = array_mtx, !.wdiv = _w_divide]]
    /\ obs' = NoObs
    /\ UNCHANGED <<knobVars, fieldVars, array_mtx, input1, opCtx, input_format,
                   validated, aborted, passSrc>>

\* pixel_engine(in, y, x, r, channels, out) is entered for scanline y: the
\* aborted() test and return, else the loop is set up at X = x.
BeginEngine(y, x, r) ==
    /\ validated
    /\ calls[y].pc = "idle"
    /\ calls' = [calls EXCEPT ![y] =
                    [IdleCall EXCEPT !.pc = IF ~aborted /\ x < r THEN "run" ELSE "done",
                                     !.x = x, !.r = r, !.X = x,
                                     !.entryAbort = aborted,
                                     !.mtx = array_mtx, !.wdiv = _w_divide]]
    /\ obs' = NoObs
    /\ UNCHANGED <<knobVars, fieldVars, array_mtx, input1, opCtx, input_format,
                   validated, aborted, passSrc>>

\* the loop reading the input pixel at x, the start of the span, every time
PixelStepReadsFirst(y) ==
    /\ calls[y].pc = "run"
    /\ LET X == calls[y].X
           pw == PixelKernel(array_mtx, _w_divide, Image(y, calls[y].x))
       IN  calls' = [calls EXCEPT ![y].out[X] = pw,
                                  ![y].X = X + 1,
                                  ![y].pc = IF X + 1 < calls[y].r THEN "run" ELSE "done"]
    /\ obs' = NoObs
    /\ UNCHANGED <<knobVars, fieldVars, array_mtx, input1, opCtx, input_format,
                   validated, aborted, passSrc>>

\* the loop transposing array_mtx in place for the pixel it transforms
PixelStepWritesMatrix(y) ==
    /\ calls[y].pc = "run"
    /\ LET X == calls[y].X
           pw == PixelKernel(Transpose(array_mtx), _w_divide, Image(y, X))
       IN  calls' = [calls EXCEPT ![y].out[X] = pw,
                                  ![y].X = X + 1,
                                  ![y].pc = IF X + 1 < calls[y].r THEN "run" ELSE "done"]
    /\ array_mtx' = Transpose(array_mtx)
    /\ obs' = NoObs
    /\ UNCHANGED <<knobVars, fieldVars, input1, opCtx, input_format,
                   validated, aborted, passSrc>>

\* One iteration of pixel_engine's loop on scanline y.
PixelStep(y) ==
    /\ calls[y].pc = "run"
    /\ LET X == calls[y].X
           pw == PixelKernel(array_mtx, _w_divide, Image(y, X))
       IN  calls' = [calls EXCEPT ![y].out[X] = pw,
                                  ![y].X = X + 1,
                                  ![y].pc = IF X + 1 < calls[y].r THEN "run" ELSE "done"]
    /\ obs' = NoObs
    /\ UNCHANGED <<knobVars, fieldVars, array_mtx, input1, opCtx, input_format,
                   validated, aborted, passSrc>>

\* pixel_engine returns; the host takes the row.
EndEngine(y) ==
    /\ calls[y].pc = "done"
    /\ calls' = [calls EXCEPT ![y] = IdleCall]
    /\ obs' = NoObs
    /\ UNCHANGED <<knobVars, fieldVars, array_mtx, input1, opCtx, input_format,
                   validated, aborted, passSrc>>

\* The host raises the abort signal; sawAbort records the calls that had
\* pixels left to process at that moment.
Abort ==
    /\ ~aborted
    /\ aborted' = TRUE
    /\ calls' = [y \in Scanlines |->
                    IF InFlight(y) THEN [calls[y] EXCEPT !.sawAbort = TRUE] ELSE calls[y]]
    /\ obs' = NoObs
    /\ UNCHANGED <<knobVars, fieldVars, array_mtx, input1, opCtx, input_format,
                   validated, passSrc>>

\* The host starts a new render: aborted() is false again.
ClearAbort ==
    /\ aborted
    /\ \A y \in Scanlines : calls[y].pc = "idle"
    /\ aborted' = FALSE
    /\ obs' = NoObs
    /\ UNCHANGED <<knobVars, fieldVars, array_mtx, input1, opCtx, input_format,
                   validated, calls, passSrc>>

\* buffer sizes the host asks the bridge for
RequestedCounts == {0, 1, 4, 16, 17, 20}

\* input indices the host offers ops for
InputIndices == {0, 1, 2}

\* The host queries the bridge at context oc: both provideValues overloads
\* (the buffer one with a fresh buffer of nValues slots) and the three flags.
QueryBridge(oc, nValues) ==
    /\ obs' = [kind |-> "values", oc |-> oc, n |-> nValues,
               mode |-> k_matrixFrom, option |-> k_matrixType,
               op |-> input1, c |-> opCtx,
               vec |-> provideValues(oc, opCtx),
               buf |-> provideValuesBuf([i \in 1..nValues |-> Unwritten], nValues,
                                        oc, opCtx),
               enabled |-> provideValuesEnabled,
               animated |-> isAnimated,
               isdefault |-> isDefault]
    /\ UNCHANGED <<knobVars, fieldVars, array_mtx, input1, opCtx, input_format,
                   validated, aborted, calls, passSrc>>

\* _getInputMatrix is called at context oc.
CallGetInputMatrix(oc) ==
    /\ obs' = [kind |-> "extract", oc |-> oc, op |-> input1, c |-> opCtx,
               option |-> k_matrixType, fmt |-> input_format,
               result |-> _getInputMatrix(input1, opCtx, get_value_at(k_matrixType, oc),
                                          input_format)]
    /\ UNCHANGED <<knobVars, fieldVars, array_mtx, input1, opCtx, input_format,
                   validated, aborted, calls, passSrc>>

----------------------------------------------------------------------------
(* Specifications.  Next is the whole node; the others are the node with   *)
(* the host exercising one part of it.                                     *)

Next ==
    \/ \E v \in MatrixFromValues : SetMatrixFrom(v)
    \/ \E v \in Options : SetMatrixType(v)
    \/ \E m \in ManualMatrices : SetMatrix(m)
    \/ SetInvert
    \/ SetTranspose
    \/ SetWDivide
    \/ \E op \in Ops : ConnectInput(op)
    \/ \E n \in InputIndices, op \in Ops : OfferInput(n, op)
    \/ DisconnectInput
    \/ \E c \in Contexts : knobs(c)
    \/ Validate
    \/ \E y \in Scanlines, x \in 0..(MaxX + 1), r \in 0..(MaxX + 1) : x <= r /\ BeginEngine(y, x, r)
    \/ \E y \in Scanlines : PixelStep(y)
    \/ \E y \in Scanlines : EndEngine(y)
    \/ Abort
    \/ ClearAbort
    \/ \E oc \in Contexts, n \in RequestedCounts : QueryBridge(oc, n)
    \/ \E oc \in Contexts : CallGetInputMatrix(oc)

Spec == Init /\ [][Next]_vars

\* Provider mode.  The node is loaded with any extraction option and any
\* transpose flag in its knobs; then the mode and the invert flag are edited,
\* input 1 is rewired, the knobs are stored and _validate runs.
InitResolve ==
    /\ k_matrixFrom = 0 /\ k_matrixType \in Options /\ k_matrix = ZeroM
    /\ k_invert = FALSE /\ k_transpose \in BOOLEAN /\ k_w_divide = FALSE
    /\ _matrixFrom = 0 /\ _matrixOption = 0 /\ _arrayKnob = ZeroM
    /\ _invert = FALSE /\ _transpose = FALSE /\ _w_divide = FALSE
    /\ array_mtx \in {ZeroM, PerspM}
    /\ input1 = NullOp /\ opCtx = 1 /\ input_format = DefaultFormat
    /\ validated = FALSE /\ aborted = FALSE
    /\ calls = [y \in Scanlines |-> IdleCall]
    /\ passSrc = [kind |-> "none"]
    /\ obs = NoObs

NextResolve ==
    \/ \E v \in MatrixFromValues : SetMatrixFrom(v)
    \/ SetInvert
    \/ \E op \in Ops : ConnectInput(op)
    \/ DisconnectInput
    \/ \E c \in Contexts : knobs(c)
    \/ Validate

SpecResolve == InitResolve /\ [][NextResolve]_vars

\* Manual mode: edits of the matrix and its conditioning, knob stores, _validate.
NextManual ==
    \/ \E m \in ManualMatrices : SetMatrix(m)
    \/ SetInvert
    \/ SetTranspose
    \/ \E op \in Ops : ConnectInput(op)
    \/ \E c \in Contexts : knobs(c)
    \/ Validate

SpecManual == Init /\ [][NextManual]_vars

\* The live-value bridge, queried by the host between edits and rewirings.
NextBridge ==
    \/ \E v \in MatrixFromValues : SetMatrixFrom(v)
    \/ \E v \in Options : SetMatrixType(v)
    \/ \E op \in Ops : ConnectInput(op)
    \/ DisconnectInput
    \/ \E oc \in Contexts, n \in RequestedCounts : QueryBridge(oc, n)

SpecBridge == Init /\ [][NextBridge]_vars

\* Wiring: the mode knob, knob stores, _validate, ops offered to the inputs.
NextWiring ==
    \/ \E v \in MatrixFromValues : SetMatrixFrom(v)
    \/ \E n \in InputIndices, op \in Ops : OfferInput(n, op)
    \/ DisconnectInput
    \/ \E c \in Contexts : knobs(c)
    \/ Validate

SpecWiring == Init /\ [][NextWiring]_vars

\* The mode as the bridge sees it: the knob is edited, the host stores it in
\* a knob store, and queries the bridge at any moment in between.
NextFlags ==
    \/ \E v \in MatrixFromValues : SetMatrixFrom(v)
    \/ \E op \in Ops : ConnectInput(op)
    \/ \E c \in Contexts : knobs(c)
    \/ Validate
    \/ \E oc \in Contexts, n \in RequestedCounts : QueryBridge(oc, n)

SpecFlags == Init /\ [][NextFlags]_vars

\* Pixel processing: knob stores, _validate and concurrent pixel_engine calls.
NextPixel ==
    \/ \E m \in ManualMatrices : SetMatrix(m)
    \/ SetWDivide
    \/ \E c \in Contexts : knobs(c)
    \/ Validate
    \/ ClearAbort
    \/ \E y \in Scanlines, x \in 0..(MaxX + 1), r \in 0..(MaxX + 1) : x <= r /\ BeginEngine(y, x, r)
    \/ \E y \in Scanlines : PixelStep(y)
    \/ \E y \in Scanlines : EndEngine(y)
    \/ Abort

SpecPixel == Init /\ [][NextPixel]_vars

\* _getInputMatrix as a function of what is on input 1: any op, or none.
InitExtract ==
    /\ k_matrixFrom = FromProvider /\ k_matrixType = 0 /\ k_matrix = ZeroM
    /\ k_invert = FALSE /\ k_transpose = FALSE /\ k_w_divide = FALSE
    /\ _matrixFrom = 0 /\ _matrixOption = 0 /\ _arrayKnob = ZeroM
    /\ _invert = FALSE /\ _transpose = FALSE /\ _w_divide = FALSE
    /\ array_mtx = ZeroM
    /\ input1 \in Ops \cup {NullOp} /\ opCtx \in Contexts /\ input_format \in Formats
    /\ validated = FALSE /\ aborted = FALSE
    /\ calls = [y \in Scanlines |-> IdleCall]
    /\ passSrc = [kind |-> "none"]
    /\ obs = NoObs

NextExtract ==
    \/ \E v \in Options : SetMatrixType(v)
    \/ \E oc \in Contexts : CallGetInputMatrix(oc)

SpecExtract == InitExtract /\ [][NextExtract]_vars

----------------------------------------------------------------------------
(* Properties.                                                             *)

\* base, transposed if transp, then inverted if inv
Conditioned(base, transp, inv) ==
    IF inv THEN Inverse(IF transp THEN Transpose(base) ELSE base)
    ELSE IF transp THEN Transpose(base) ELSE base

\* C2: in Manual mode the matrix _validate leaves in array_mtx is the 16 manual
\* values, transposed iff transpose is set and then inverted iff invert is
\* set; with both flags off it is the manual values unchanged.
C2_ManualMatrixStored ==
    (validated /\ _matrixFrom = 0) =>
        /\ passSrc.kind = "manual"
        /\ array_mtx = Conditioned(passSrc.m, _transpose, _invert)
        /\ (~_transpose /\ ~_invert) => array_mtx = passSrc.m

C2_Witness ==
    /\ validated /\ _matrixFrom = 0
    /\ passSrc.kind = "manual" /\ passSrc.m = PerspM
    /\ _transpose /\ _invert
    /\ array_mtx = Inverse(Transpose(PerspM))
    /\ array_mtx # Inverse(PerspM)

\* the configurations in which nothing is to be extracted: an Axis asked for
\* projection or format, no op on input 1, an op that is no Camera and no Axis
Inapplicable(op, option) ==
    \/ op = "axis" /\ option \in {4, 5}
    \/ op = NullOp
    \/ op = "other"

\* C3: _getInputMatrix returns the identity for an Axis with option projection
\* or format (whatever the Axis' transform), with no op on input 1, and with
\* an op that is neither a Camera nor an Axis.
C3_InapplicableIsIdentity ==
    (obs.kind = "extract" /\ Inapplicable(obs.op, obs.option)) =>
        obs.result = IdentityM

C3_Witness ==
    /\ obs.kind = "extract" /\ obs.op = "axis" /\ obs.option = 4 /\ obs.c = NumCtx
    /\ mat4dToMatrix4(WorldTransform("axis", obs.c)) # IdentityM
    /\ obs.result = IdentityM

\* the pixels of the span of call cl
InSpan(cl, X) == cl.x <= X /\ X < cl.r

\* a call that passed the aborted() test and has left its loop
Finished(y) == calls[y].pc = "done" /\ ~calls[y].entryAbort

\* C4: with array_mtx the identity and w_divide off, a pixel_engine call that
\* was not aborted on entry leaves in every pixel X of [x, r) the (R,G,B,A)
\* of the input at X.
C4_IdentityPassThrough ==
    \A y \in Scanlines :
        (Finished(y) /\ array_mtx = IdentityM /\ ~_w_divide) =>
            \A X \in Pixels : InSpan(calls[y], X) => calls[y].out[X] = Image(y, X)

C4_Witness ==
    \E y \in Scanlines :
        /\ Finished(y) /\ array_mtx = IdentityM /\ ~_w_divide
        /\ calls[y].x = 0 /\ calls[y].r = MaxX + 1
        /\ \A X \in Pixels : calls[y].out[X] = Image(y, X)

\* C5: with w_divide on, every output pixel is the transformed vector with
\* all four components divided by the transformed w; when that w is finite
\* and not zero the output w is 1; (1,1,1,1) transformed to (1,1,1,2) gives
\* (1/2, 1/2, 1/2, 1).
C5_PerspectiveDivide ==
    \A y \in Scanlines :
        (Finished(y) /\ _w_divide) =>
            \A X \in Pixels : InSpan(calls[y], X) =>
                LET pw == Transform(array_mtx, Image(y, X))
                IN  /\ calls[y].out[X] = <<RDiv(pw[1], pw[4]), RDiv(pw[2], pw[4]),
                                           RDiv(pw[3], pw[4]), RDiv(pw[4], pw[4])>>
                    /\ (IsFinite(pw[4]) /\ ~IsZero(pw[4])) => calls[y].out[X][4] = R(1)
                    /\ (Image(y, X) = <<R(1), R(1), R(1), R(1)>>
                          /\ pw = <<R(1), R(1), R(1), R(2)>>)
                       => calls[y].out[X] = <<Rat(1, 2), Rat(1, 2), Rat(1, 2), R(1)>>

C5_Witness ==
    \E y \in Scanlines :
        /\ Finished(y) /\ _w_divide /\ array_mtx = PerspM
        /\ InSpan(calls[y], 0)
        /\ Image(y, 0) = <<R(1), R(1), R(1), R(1)>>
        /\ Transform(array_mtx, Image(y, 0)) = <<R(1), R(1), R(1), R(2)>>
        /\ calls[y].out[0] = <<Rat(1, 2), Rat(1, 2), Rat(1, 2), R(1)>>

\* C6 as claimed: a call during which the abort signal became set, with
\* pixels of its span still to process, exits before finishing the span: it
\* leaves at least one pixel of the span untouched.
C6_AbortStopsSpan ==
    \A y \in Scanlines :
        (calls[y].pc = "done" /\ calls[y].sawAbort) =>
            \E X \in Pixels : InSpan(calls[y], X) /\ calls[y].out[X] = Untouched

\* C6 amended: pixel_engine tests the abort signal once, on entry.  A call
\* entered with the signal set writes no pixel.  A call entered with the
\* signal clear processes its whole span, also when the signal becomes set
\* meanwhile; the pixels it has written hold their transformed values and
\* every other pixel is untouched.
C6_AbortCheckedOnEntry ==
    \A y \in Scanlines :
        LET cl == calls[y]
        IN  cl.pc # "idle" =>
              /\ cl.entryAbort =>
                    cl.pc = "done" /\ \A X \in Pixels : cl.out[X] = Untouched
              /\ ~cl.entryAbort =>
                    /\ cl.pc = "done" => cl.X = cl.r
                    /\ \A X \in Pixels :
                          IF cl.x <= X /\ X < cl.X
                          THEN cl.out[X] = PixelKernel(cl.mtx, cl.wdiv, Image(y, X))
                          ELSE cl.out[X] = Untouched

C6_Witness ==
    \E y \in Scanlines :
        /\ calls[y].pc = "done" /\ calls[y].sawAbort /\ ~calls[y].entryAbort
        /\ calls[y].x = 0 /\ calls[y].r = MaxX + 1
        /\ \A X \in Pixels : calls[y].out[X] # Untouched

\* the 16 entries of the identity, as doubles
IdentityValues == [i \in Idx |-> ToDouble(IdentityM[i])]

\* C7: when the matrixFrom knob is Manual, provideValuesEnabled is false and
\* provideValues returns the 16 entries of the identity, at every context and
\* whatever is on input 1.
C7_ManualBridgeIsIdentity ==
    (obs.kind = "values" /\ obs.mode = 0) =>
        /\ obs.enabled = FALSE
        /\ obs.vec = IdentityValues

C7_Witness ==
    /\ obs.kind = "values" /\ obs.mode = 0 /\ obs.op = "camera" /\ obs.oc = NumCtx
    /\ obs.option = 0
    /\ mat4dToMatrix4(WorldTransform("camera", obs.c)) # IdentityM
    /\ obs.enabled = FALSE /\ obs.vec = IdentityValues

\* C8: queried in the same state at the same context, the buffer overload of
\* provideValues writes into slot i, for every i below min(nValues, 16), the
\* element i of the vector the legacy overload returns, and writes no slot
\* from min(nValues, 16) on.
C8_OverloadsAgree ==
    obs.kind = "values" =>
        /\ DOMAIN obs.buf = 1..obs.n
        /\ DOMAIN obs.vec = Idx
        /\ \A i \in 1..obs.n :
              IF i <= Min(obs.n, MatrixSize)
              THEN obs.buf[i] = obs.vec[i]
              ELSE obs.buf[i] = Unwritten

C8_Witness ==
    /\ obs.kind = "values" /\ obs.n > MatrixSize
    /\ obs.mode = FromProvider /\ obs.op = "camera" /\ obs.option = 2
    /\ obs.vec # IdentityValues
    /\ \A i \in Idx : obs.buf[i] = obs.vec[i]
    /\ obs.buf[MatrixSize + 1] = Unwritten

\* C9: array_mtx has, for the whole of every pixel_engine call in flight, the
\* value it had when the call was entered, and every pixel the call has
\* written was transformed by that matrix: pixel_engine does not write
\* array_mtx, and _validate, its only writer, does not run meanwhile.
C9_MatrixStableInFlight ==
    \A y \in Scanlines :
        LET cl == calls[y]
        IN  (cl.pc # "idle" /\ ~cl.entryAbort) =>
              /\ array_mtx = cl.mtx
              /\ \A X \in Pixels :
                    (cl.x <= X /\ X < cl.X) =>
                        cl.out[X] = PixelKernel(cl.mtx, _w_divide, Image(y, X))

C9_Witness ==
    /\ \A y \in Scanlines : calls[y].pc = "run" /\ calls[y].X > calls[y].x
    /\ array_mtx = PerspM
    /\ k_matrix # _arrayKnob

\* C10: minimum_inputs and maximum_inputs are 1 when the stored mode is Manual
\* and 2 when it is FromProvider; an op offered for an input n >= 1 is
\* accepted iff it is a Camera or an Axis.
C10_ArityFollowsMode ==
    /\ _matrixFrom \in MatrixFromValues
    /\ _matrixFrom = 0 => (minimum_inputs = 1 /\ maximum_inputs = 1)
    /\ _matrixFrom = FromProvider => (minimum_inputs = 2 /\ maximum_inputs = 2)
    /\ (obs.kind = "offer" /\ obs.n >= 1) =>
          (obs.ok <=> obs.op \in {"camera", "axis", "defcam"})

C10_Witness ==
    /\ _matrixFrom = FromProvider /\ minimum_inputs = 2
    /\ obs.kind = "offer" /\ obs.n = 1 /\ obs.op = "other" /\ ~obs.ok
    /\ input1 = "axis"

\* the vector provideValues builds from the op on input 1
ProviderValues(op, c, option) ==
    [i \in Idx |-> ToDouble(_getInputMatrix(op, c, option, input_format)[i])]

\* C11: at every query of the bridge, at every context, the three answers
\* agree: provideValuesEnabled is true iff isAnimated is true iff
\* provideValues returns the provider's matrix and not the forced identity.
C11_BridgeAnswersAgree ==
    obs.kind = "values" =>
        /\ obs.enabled <=> obs.animated
        /\ IF obs.animated
           THEN obs.vec = ProviderValues(obs.op, obs.c, obs.option)
           ELSE obs.vec = IdentityValues

\* The disagreement: the knob was set to FromProvider and the bridge is
\* queried before the next store of the knobs; provideValuesEnabled is true
\* and provideValues returns the camera's matrix while isAnimated is false.
C11_Disagreement ==
    /\ obs.kind = "values"
    /\ k_matrixFrom = FromProvider /\ _matrixFrom = 0
    /\ obs.op = "camera"
    /\ obs.enabled /\ ~obs.animated
    /\ obs.vec = ProviderValues("camera", obs.c, obs.option)
    /\ obs.vec # IdentityValues

============================================================================
